---- MODULE Spec2Model ----
(***************************************************************************)
(* Model of src/main.py: the Streamlit form, the call to the document-QA   *)
(* service, parse_message_content (grouping of the response's content      *)
(* blocks into introduction / sections / footnotes) and the Jinja template *)
(* that renders the grouped data to markdown.                              *)
(*                                                                         *)
(* A Python str is modelled as the sequence of its characters. The         *)
(* transition marker of line 47 and the messages shown to the user are     *)
(* each held as one piece: the code compares or copies them whole.         *)
(***************************************************************************)
EXTENDS Integers, Sequences, FiniteSets, TLC

VARIABLES
    pc,               \* position of the script run
    submit,           \* st.button("Submit") of this run
    uploaded_file,    \* TRUE iff st.file_uploader returned a file
    question,         \* the text area's value
    pdf_base64,       \* "unset" or "encoded"
    content,          \* response.content: the blocks of the service's answer
    idx,              \* position of the loop `for block in message.content`
    parsed_content,   \* [introduction, sections]
    current_section,  \* <<>> for None, <<section>> otherwise
    footnote_counter,
    all_citations,
    markdown,         \* the rendered string
    placeholder,      \* the elements response_placeholder (st.empty) holds
    warnings,         \* st.warning elements written to the page
    steps,            \* history: the steps of the try block done so far
    introBy,          \* history: indexes of the blocks that took the introduction branch
    openedBy          \* history: indexes of the blocks that opened a section

vars == <<pc, submit, uploaded_file, question, pdf_base64, content, idx,
          parsed_content, current_section, footnote_counter, all_citations,
          markdown, placeholder, warnings, steps, introBy, openedBy>>

parseVars == <<parsed_content, current_section, footnote_counter, all_citations>>

----------------------------------------------------------------------------
(* Bounds of the model *)

MaxBlocks == 3
MaxCitations == 2

----------------------------------------------------------------------------
(* Strings *)

NL == "\n"

WhiteSpace == {" ", "\t", NL}

\* the literal of line 47
TransitionMarker == <<"However, there is an important exception:">>

RECURSIVE LStrip(_)
LStrip(s) ==
    IF s # <<>> /\ Head(s) \in WhiteSpace THEN LStrip(Tail(s)) ELSE s

RECURSIVE RStrip(_)
RStrip(s) ==
    IF s # <<>> /\ s[Len(s)] \in WhiteSpace
    THEN RStrip(SubSeq(s, 1, Len(s) - 1))
    ELSE s

\* str.strip()
Strip(s) == RStrip(LStrip(s))

Digit(d) == <<"0", "1", "2", "3", "4", "5", "6", "7", "8", "9">>[d + 1]

\* str(n) of a non-negative int, as f-strings and Jinja's {{ }} produce it
RECURSIVE ToStr(_)
ToStr(n) ==
    IF n < 10 THEN <<Digit(n)>> ELSE ToStr(n \div 10) \o <<Digit(n % 10)>>

----------------------------------------------------------------------------
(* The inputs: the blocks a response can hold *)

Citations ==
    { [cited_text |-> <<" ", "q">>, start_page_number |-> 1, end_page_number |-> 2],
      [cited_text |-> <<"r">>, start_page_number |-> 3, end_page_number |-> 3] }

\* the citations of one block: up to MaxCitations of them, repeats allowed,
\* in the order of the pages they point to
CitationLists ==
    UNION { { cs \in [1..n -> Citations] :
                \A i \in 1..(n - 1) :
                    cs[i].start_page_number <= cs[i + 1].start_page_number }
            : n \in 1..MaxCitations }

PlainTexts ==
    { <<" ">>, <<" ", "a">>, TransitionMarker \o <<" ">> }

\* a text block's citations attribute is None or a list; both are falsy when
\* empty, and <<>> stands for either
TextBlocks ==
    { [type |-> "text", text |-> t, citations |-> <<>>] : t \in PlainTexts }
    \cup
    { [type |-> "text", text |-> <<"c", " ">>, citations |-> cs] : cs \in CitationLists }

\* a block of another type; the code reads nothing but its type
OtherBlocks ==
    { [type |-> "tool_use", text |-> <<" ", "a">>,
       citations |-> <<CHOOSE c \in Citations : c.start_page_number = 1>>] }

Blocks == TextBlocks \cup OtherBlocks

Contents == UNION { [1..n -> Blocks] : n \in 0..MaxBlocks }

----------------------------------------------------------------------------
(* parse_message_content *)

\* a variant that lets every block through the type test of line 40
IsTextBlockAnyType(block) == TRUE

IsTextBlock(block) == block.type = "text"

\* a variant of line 42 that takes only a non-blank block as the introduction
IsIntroductionNonBlank(block, pcontent) ==
    /\ block.citations = <<>>
    /\ pcontent.introduction = <<>>
    /\ block.text # <<>>
    /\ \E k \in 1..Len(block.text) : block.text[k] \notin {" ", "\t", "\n"}

\* line 42
IsIntroduction(block, pcontent) ==
    block.citations = <<>> /\ pcontent.introduction = <<>>

\* a variant of line 47 without the test of the trimmed text
StartsSectionAnyPlain(block) ==
    block.citations # <<>> \/ block.citations = <<>>

\* line 47
StartsSection(block) ==
    \/ block.citations # <<>>
    \/ /\ block.citations = <<>>
       /\ Strip(block.text) \in {TransitionMarker, <<>>}

\* lines 52-56
NewSection(block) ==
    [text |-> Strip(block.text), citations |-> <<>>, footnote_numbers |-> <<>>]

PageRange(citation) ==
    <<"P", "a", "g", "e", "s", " ">> \o ToStr(citation.start_page_number) \o <<"-">>
        \o ToStr(citation.end_page_number)

\* a variant of line 72 that forgets to count
IncrementNot(n) == n

\* line 72
Increment(n) == n + 1

\* a variant of lines 61-72 that counts before line 66 records the number
AddCitationLate(st, citation) ==
    LET sec == st.current_section[1]
        sec2 == [sec EXCEPT
                   !.citations = Append(@,
                       [cited_text |-> Strip(citation.cited_text),
                        page_range |-> PageRange(citation),
                        footnote_number |-> st.footnote_counter]),
                   !.footnote_numbers = Append(@, st.footnote_counter + 1)]
    IN [st EXCEPT
          !.current_section = <<sec2>>,
          !.all_citations = Append(@,
              [number |-> st.footnote_counter,
               text |-> Strip(citation.cited_text),
               page_range |-> PageRange(citation)]),
          !.footnote_counter = @ + 1]

\* lines 61-72, one iteration of `for citation in block.citations`
AddCitation(st, citation) ==
    LET sec == st.current_section[1]
        sec2 == [sec EXCEPT
                   !.citations = Append(@,
                       [cited_text |-> Strip(citation.cited_text),
                        page_range |-> PageRange(citation),
                        footnote_number |-> st.footnote_counter]),
                   !.footnote_numbers = Append(@, st.footnote_counter)]
    IN [st EXCEPT
          !.current_section = <<sec2>>,
          !.all_citations = Append(@,
              [number |-> st.footnote_counter,
               text |-> Strip(citation.cited_text),
               page_range |-> PageRange(citation)]),
          !.footnote_counter = Increment(@)]

\* lines 59-72
RECURSIVE AddCitations(_, _)
AddCitations(st, cites) ==
    IF cites = <<>> THEN st
    ELSE AddCitations(AddCitation(st, Head(cites)), Tail(cites))

\* lines 39-72, the body of the loop for one block
ParseStep(st, block) ==
    IF ~IsTextBlock(block) THEN st
    ELSE IF IsIntroduction(block, st.parsed_content)
    THEN [st EXCEPT !.parsed_content.introduction = Strip(block.text)]
    ELSE IF StartsSection(block)
    THEN LET closed ==
                 IF st.current_section # <<>>
                 THEN [st EXCEPT !.parsed_content.sections =
                                     Append(@, st.current_section[1])]
                 ELSE st
             opened ==
                 [closed EXCEPT !.current_section =
                     <<NewSection(block)>>]
         IN AddCitations(opened, block.citations)
    ELSE st

\* lines 74-76
ParseFinish(st) ==
    IF st.current_section # <<>>
    THEN [st EXCEPT !.parsed_content.sections = Append(@, st.current_section[1])]
    ELSE st

\* lines 30-37
ParseInit ==
    [parsed_content |-> [introduction |-> <<>>, sections |-> <<>>],
     current_section |-> <<>>,
     footnote_counter |-> 1,
     all_citations |-> <<>>]

ParseState ==
    [parsed_content |-> parsed_content,
     current_section |-> current_section,
     footnote_counter |-> footnote_counter,
     all_citations |-> all_citations]

----------------------------------------------------------------------------
(* TEMPLATE_STRING, rendered by jinja2.Template with its default settings:  *)
(* no trim_blocks, no lstrip_blocks, and the template's one trailing        *)
(* newline removed (keep_trailing_newline is False).                        *)

\* the join filter: str() of each item, separated by sep
RECURSIVE Join(_, _)
Join(nums, sep) ==
    IF nums = <<>> THEN <<>>
    ELSE IF Len(nums) = 1 THEN ToStr(nums[1])
    ELSE ToStr(nums[1]) \o sep \o Join(Tail(nums), sep)

\* a variant of line 12 that joins the numbers with a comma
RenderMarkersComma(footnote_numbers) ==
    IF footnote_numbers # <<>>
    THEN <<"[", "^">> \o Join(footnote_numbers, <<",", " ">>) \o <<"]">>
    ELSE <<>>

\* line 12: the footnote markers of one section
RenderMarkers(footnote_numbers) ==
    IF footnote_numbers # <<>>
    THEN <<"[", "^">> \o Join(footnote_numbers, <<"]", "[", "^">>) \o <<"]">>
    ELSE <<>>

\* lines 11-14: one iteration of the sections loop
RenderSection(section) ==
    <<NL>> \o section.text \o RenderMarkers(section.footnote_numbers) \o <<NL, NL>>

\* a variant of lines 16-18 as rendered with trim_blocks set: the newline
\* after the for tag is removed
RenderCitationTrimBlocks(citation) ==
    <<"[", "^">> \o ToStr(citation.number) \o <<"]", ":", " ">> \o citation.text
        \o <<" ", "*", "(">> \o citation.page_range \o <<")", "*", NL>>

\* lines 16-18: one iteration of the citations loop
RenderCitation(citation) ==
    <<NL, "[", "^">> \o ToStr(citation.number) \o <<"]", ":", " ">> \o citation.text
        \o <<" ", "*", "(">> \o citation.page_range \o <<")", "*", NL>>

RECURSIVE RenderSections(_)
RenderSections(sections) ==
    IF sections = <<>> THEN <<>>
    ELSE RenderSection(Head(sections)) \o RenderSections(Tail(sections))

RECURSIVE RenderCitations(_)
RenderCitations(citations) ==
    IF citations = <<>> THEN <<>>
    ELSE RenderCitation(Head(citations)) \o RenderCitations(Tail(citations))

\* lines 8-19
TemplateRender(introduction, sections, citations) ==
    <<NL>> \o introduction \o <<NL, NL>>
        \o RenderSections(sections)
        \o <<NL, NL>>
        \o RenderCitations(citations)

----------------------------------------------------------------------------
(* The script *)

StepOrder == <<"encode", "info", "call", "render", "display">>

\* a variant of line 145 that does not test the question
FormReadyNoQuestion(s, f, q) == s /\ f

\* line 145
FormReady(s, f, q) == s /\ f /\ q # <<>>

Questions == { <<>>, <<"w", "h", "y", "?">> }

Init ==
    /\ pc = "form"
    /\ submit = FALSE
    /\ uploaded_file = FALSE
    /\ question = <<>>
    /\ pdf_base64 = "unset"
    /\ content = <<>>
    /\ idx = 1
    /\ parsed_content = ParseInit.parsed_content
    /\ current_section = ParseInit.current_section
    /\ footnote_counter = ParseInit.footnote_counter
    /\ all_citations = ParseInit.all_citations
    /\ markdown = <<>>
    /\ placeholder = <<>>
    /\ warnings = <<>>
    /\ steps = <<>>
    /\ introBy = <<>>
    /\ openedBy = <<>>

\* lines 133-145 and 166-170: the widgets' values of this run and the branch
RunForm ==
    /\ pc = "form"
    /\ \E s \in BOOLEAN, f \in BOOLEAN, q \in Questions :
         /\ submit' = s
         /\ uploaded_file' = f
         /\ question' = q
         /\ IF FormReady(s, f, q)
            THEN /\ pc' = "encode"
                 /\ warnings' = warnings
            ELSE /\ pc' = "done"
                 /\ warnings' =
                      IF s
                      THEN (IF ~f THEN <<"Please upload a PDF file.">> ELSE <<>>)
                           \o (IF q = <<>> THEN <<"Please enter a question.">> ELSE <<>>)
                      ELSE <<>>
    /\ UNCHANGED <<pdf_base64, content, idx, parseVars, markdown, placeholder,
                   steps, introBy, openedBy>>

\* line 148
Encode ==
    /\ pc = "encode"
    /\ pdf_base64' = "encoded"
    /\ steps' = Append(steps, "encode")
    /\ pc' = "info"
    /\ UNCHANGED <<submit, uploaded_file, question, content, idx, parseVars,
                   markdown, placeholder, warnings, introBy, openedBy>>

\* lines 151-152
ShowInfo ==
    /\ pc = "info"
    /\ placeholder' = <<[kind |-> "info", body |-> <<"Processing your question...">>]>>
    /\ steps' = Append(steps, "info")
    /\ pc' = "call"
    /\ UNCHANGED <<submit, uploaded_file, question, pdf_base64, content, idx,
                   parseVars, markdown, warnings, introBy, openedBy>>

\* line 155: the service answers with some content
CallAnthropic ==
    /\ pc = "call"
    /\ \E c \in Contents : content' = c
    /\ steps' = Append(steps, "call")
    /\ pc' = "parse"
    /\ UNCHANGED <<submit, uploaded_file, question, pdf_base64, idx, parseVars,
                   markdown, placeholder, warnings, introBy, openedBy>>

\* lines 39-72: the loop body for block idx
ParseBlock ==
    /\ pc = "parse"
    /\ idx <= Len(content)
    /\ LET block == content[idx]
           st == ParseStep(ParseState, block)
       IN /\ parsed_content' = st.parsed_content
          /\ current_section' = st.current_section
          /\ footnote_counter' = st.footnote_counter
          /\ all_citations' = st.all_citations
          /\ introBy' =
               IF IsTextBlock(block) /\ IsIntroduction(block, parsed_content)
               THEN Append(introBy, idx) ELSE introBy
          /\ openedBy' =
               IF /\ IsTextBlock(block)
                  /\ ~IsIntroduction(block, parsed_content)
                  /\ StartsSection(block)
               THEN Append(openedBy, idx) ELSE openedBy
    /\ idx' = idx + 1
    /\ UNCHANGED <<pc, submit, uploaded_file, question, pdf_base64, content,
                   markdown, placeholder, warnings, steps>>

\* lines 74-79
ParseReturn ==
    /\ pc = "parse"
    /\ idx > Len(content)
    /\ LET st == ParseFinish(ParseState)
       IN /\ parsed_content' = st.parsed_content
          /\ current_section' = st.current_section
          /\ footnote_counter' = st.footnote_counter
          /\ all_citations' = st.all_citations
    /\ pc' = "template"
    /\ UNCHANGED <<submit, uploaded_file, question, pdf_base64, content, idx,
                   markdown, placeholder, warnings, steps, introBy, openedBy>>

\* line 87
RenderTemplate ==
    /\ pc = "template"
    /\ markdown' = TemplateRender(parsed_content.introduction,
                                  parsed_content.sections, all_citations)
    /\ steps' = Append(steps, "render")
    /\ pc' = "display"
    /\ UNCHANGED <<submit, uploaded_file, question, pdf_base64, content, idx,
                   parseVars, placeholder, warnings, introBy, openedBy>>

\* lines 159-160
Display ==
    /\ pc = "display"
    /\ placeholder' = <<[kind |-> "markdown", body |-> markdown]>>
    /\ steps' = Append(steps, "display")
    /\ pc' = "done"
    /\ UNCHANGED <<submit, uploaded_file, question, pdf_base64, content, idx,
                   parseVars, markdown, warnings, introBy, openedBy>>

\* lines 162-164: the encoding (line 148), the service call (line 155) or
\* the template rendering (line 156) raises
Fail ==
    /\ pc \in {"encode", "call", "template"}
    /\ placeholder' = <<[kind |-> "error", body |-> <<"An error occurred: ">>]>>
    /\ pc' = "done"
    /\ UNCHANGED <<submit, uploaded_file, question, pdf_base64, content, idx,
                   parseVars, markdown, warnings, steps, introBy, openedBy>>

Next ==
    \/ RunForm
    \/ Encode
    \/ ShowInfo
    \/ CallAnthropic
    \/ ParseBlock
    \/ ParseReturn
    \/ RenderTemplate
    \/ Display
    \/ Fail

Spec == Init /\ [][Next]_vars
----------------------------------------------------------------------------
(* Vocabulary of the properties *)

\* parse_message_content has returned
Parsed == pc \in {"template", "display"}

Recognized(block) == block.type = "text"

\* the citation objects attached to the text blocks of a sequence, in
\* encounter order
RECURSIVE FlatCitations(_)
FlatCitations(blocks) ==
    IF blocks = <<>> THEN <<>>
    ELSE (IF Recognized(Head(blocks)) THEN Head(blocks).citations ELSE <<>>)
             \o FlatCitations(Tail(blocks))

Range(seq) == { seq[k] : k \in DOMAIN seq }

Trimmed(block) == Strip(block.text)

\* the segment is one of those the grouping lets open a section
Triggers(block) ==
    \/ block.citations # <<>>
    \/ Trimmed(block) = <<>>
    \/ Trimmed(block) = TransitionMarker

\* the string made of the given lines, each ended by a newline
RECURSIVE Unlines(_)
Unlines(ls) ==
    IF ls = <<>> THEN <<>> ELSE Head(ls) \o <<NL>> \o Unlines(Tail(ls))

RECURSIVE Markers(_)
Markers(numbers) ==
    IF numbers = <<>> THEN <<>>
    ELSE <<"[", "^">> \o ToStr(Head(numbers)) \o <<"]">> \o Markers(Tail(numbers))

SectionLine(section) == section.text \o Markers(section.footnote_numbers)

DefinitionLine(entry) ==
    <<"[", "^">> \o ToStr(entry.number) \o <<"]", ":", " ">> \o entry.text
        \o <<" ", "*", "(">> \o entry.page_range \o <<")", "*">>

----------------------------------------------------------------------------
C2_SectionFootnotes ==
    Parsed =>
        LET secs == parsed_content.sections
        IN /\ Len(secs) = Len(openedBy)
           /\ \A k \in 1..Len(secs) :
                LET before == Len(FlatCitations(SubSeq(content, 1, openedBy[k] - 1)))
                    n == Len(content[openedBy[k]].citations)
                IN secs[k].footnote_numbers = [j \in 1..n |-> before + j]
           /\ \A k1, k2 \in 1..Len(secs) :
                k1 # k2 =>
                    Range(secs[k1].footnote_numbers)
                        \cap Range(secs[k2].footnote_numbers) = {}

C2_Witness ==
    /\ Parsed
    /\ Len(parsed_content.sections) = 3
    /\ parsed_content.sections[1].footnote_numbers = <<1, 2>>
    /\ parsed_content.sections[2].footnote_numbers = <<3>>
    /\ parsed_content.sections[3].footnote_numbers = <<4, 5>>

\* C3: the introduction is set at most once: the first text segment without
\* citations sets it to its trimmed text (also when that is empty) and opens
\* no section, and no later segment is consumed as the introduction.
C3_IntroductionOnce ==
    Parsed =>
        LET plain == { i \in DOMAIN content :
                         Recognized(content[i]) /\ content[i].citations = <<>> }
        IN IF plain = {}
           THEN introBy = <<>> /\ parsed_content.introduction = <<>>
           ELSE LET first == CHOOSE i \in plain : \A j \in plain : i <= j
                IN /\ introBy = <<first>>
                   /\ parsed_content.introduction = Trimmed(content[first])
                   /\ first \notin Range(openedBy)

\* C4, first part: the sections are, in input order, exactly the segments
\* that are not consumed as the introduction and that carry citations or
\* trim to the empty text or to the transition marker; each section's text
\* is its segment's trimmed text.
C4_OneSectionPerTrigger ==
    Parsed =>
        LET secs == parsed_content.sections
            openers == { i \in DOMAIN content :
                           /\ Recognized(content[i])
                           /\ i \notin Range(introBy)
                           /\ Triggers(content[i]) }
        IN /\ Len(secs) = Cardinality(openers)
           /\ Len(openedBy) = Len(secs)
           /\ Range(openedBy) = openers
           /\ \A k \in 1..Len(secs) :
                /\ secs[k].text = Trimmed(content[openedBy[k]])
                /\ k > 1 => openedBy[k - 1] < openedBy[k]

\* C4, second part: a plain segment with empty trimmed text that follows a
\* segment already consumed as the introduction yields a section with empty
\* text and no footnote numbers.
C4_BlankAfterIntroduction ==
    Parsed =>
        \A j \in DOMAIN content :
            ( /\ Recognized(content[j])
              /\ content[j].citations = <<>>
              /\ Trimmed(content[j]) = <<>>
              /\ \E i \in Range(introBy) : i < j )
            => \E k \in DOMAIN openedBy :
                 /\ openedBy[k] = j
                 /\ parsed_content.sections[k].text = <<>>
                 /\ parsed_content.sections[k].footnote_numbers = <<>>

\* C4: every triggering segment not consumed as the introduction closes the
\* current section and opens one with its trimmed text, one section per such
\* segment in input order; in particular a blank plain segment after a
\* consumed introduction segment yields an empty section.
C4_SectionPerTrigger == C4_OneSectionPerTrigger /\ C4_BlankAfterIntroduction

\* the segment that supplied the introduction
Supplier == introBy[Len(introBy)]

\* C5 as stated: with a non-empty introduction and at least one section, the
\* segment that supplied the introduction precedes every segment that opened
\* a section.
C5_IntroductionLeads ==
    (Parsed /\ parsed_content.introduction # <<>> /\ openedBy # <<>>) =>
        \A k \in DOMAIN openedBy : Supplier < openedBy[k]

\* C5 as amended: with a non-empty introduction and at least one section,
\* the segment that supplied the introduction precedes every segment without
\* citations that opened a section; a citing segment may open a section
\* before it.
C5_IntroductionLeadsPlain ==
    (Parsed /\ parsed_content.introduction # <<>> /\ openedBy # <<>>) =>
        \A k \in DOMAIN openedBy :
            content[openedBy[k]].citations = <<>> => Supplier < openedBy[k]

C5_Witness ==
    /\ Parsed
    /\ parsed_content.introduction # <<>>
    /\ Len(openedBy) = 2
    /\ openedBy[1] < Supplier
    /\ Supplier < openedBy[2]
    /\ content[openedBy[2]].citations = <<>>

\* the segment at idx is a text segment without citations whose trimmed text
\* is neither empty nor the transition marker
AtUntriggering ==
    /\ pc = "parse"
    /\ idx <= Len(content)
    /\ Recognized(content[idx])
    /\ content[idx].citations = <<>>
    /\ Trimmed(content[idx]) \notin {<<>>, TransitionMarker}

\* C6: processing a text segment without citations, whose trimmed text is
\* neither empty nor the transition marker and that is not consumed as the
\* introduction, leaves the introduction, the sections, the open section,
\* the footnote list and the footnote counter as they were.
C6_DroppedChangesNothing ==
    [][(AtUntriggering /\ introBy' = introBy) => UNCHANGED parseVars]_vars

\* such a segment has just been processed while a section with footnotes
\* was open
C6_Witness ==
    /\ pc = "parse"
    /\ idx = 4
    /\ Recognized(content[3])
    /\ content[3].citations = <<>>
    /\ Trimmed(content[3]) \notin {<<>>, TransitionMarker}
    /\ 3 \notin Range(introBy)
    /\ current_section # <<>>
    /\ current_section[1].footnote_numbers # <<>>
    /\ parsed_content.introduction # <<>>

RECURSIVE ParseAll(_, _)
ParseAll(st, blocks) ==
    IF blocks = <<>> THEN ParseFinish(st)
    ELSE ParseAll(ParseStep(st, Head(blocks)), Tail(blocks))

\* C7: the result of parse_message_content on a sequence equals its result
\* on the same sequence with the blocks of unrecognized type removed.
C7_UnrecognizedSkipped ==
    Parsed =>
        ParseState = ParseAll(ParseInit, SelectSeq(content, Recognized))

C7_Witness ==
    /\ Parsed
    /\ Len(content) = 3
    /\ ~Recognized(content[2])
    /\ Len(parsed_content.sections) = 2
    /\ parsed_content.introduction = <<>>

RECURSIVE TemplateSectionLines(_)
TemplateSectionLines(secs) ==
    IF secs = <<>> THEN <<>>
    ELSE << <<>>, SectionLine(Head(secs)), <<>> >> \o TemplateSectionLines(Tail(secs))

RECURSIVE TemplateDefinitionLines(_)
TemplateDefinitionLines(entries) ==
    IF entries = <<>> THEN <<>>
    ELSE << <<>>, DefinitionLine(Head(entries)) >>
             \o TemplateDefinitionLines(Tail(entries))

\* what the rendered markdown holds before the line of section k
BeforeSection(k) ==
    Unlines(<< <<>>, parsed_content.introduction, <<>> >>
                \o TemplateSectionLines(SubSeq(parsed_content.sections, 1, k - 1))
                \o << <<>> >>)

\* C8: in the rendered markdown the line of section k starts with the
\* section's text, immediately followed by one [^n] token per entry of its
\* footnote_numbers, in list order, and by nothing when the list is empty,
\* and then ends; the section lines come in the order of the sections list.
C8_MarkersFollowText ==
    pc = "display" =>
        \A k \in 1..Len(parsed_content.sections) :
            LET start == Len(BeforeSection(k))
                line == SectionLine(parsed_content.sections[k])
            IN /\ start + Len(line) + 1 <= Len(markdown)
               /\ markdown[start] = NL
               /\ SubSeq(markdown, start + 1, start + Len(line) + 1) = line \o <<NL>>

C8_Witness ==
    /\ pc = "display"
    /\ Len(parsed_content.sections) = 2
    /\ Len(parsed_content.sections[1].footnote_numbers) = 2
    /\ parsed_content.sections[2].footnote_numbers = <<>>
    /\ parsed_content.sections[2].text # <<>>

RECURSIVE DropLeadingNewlines(_)
DropLeadingNewlines(s) ==
    IF s # <<>> /\ Head(s) = NL THEN DropLeadingNewlines(Tail(s)) ELSE s

RECURSIVE DropTrailingNewlines(_)
DropTrailingNewlines(s) ==
    IF s # <<>> /\ s[Len(s)] = NL
    THEN DropTrailingNewlines(SubSeq(s, 1, Len(s) - 1))
    ELSE s

RECURSIVE SpecSectionLines(_)
SpecSectionLines(secs) ==
    IF secs = <<>> THEN <<>>
    ELSE << <<>>, SectionLine(Head(secs)) >> \o SpecSectionLines(Tail(secs))

RECURSIVE SpecDefinitionLines(_)
SpecDefinitionLines(entries) ==
    IF entries = <<>> THEN <<>>
    ELSE <<DefinitionLine(Head(entries))>> \o SpecDefinitionLines(Tail(entries))

\* the layout of the specification: introduction, one blank line before each
\* section, one blank line, the definitions on consecutive lines
SpecLayout ==
    Unlines(<<parsed_content.introduction>>
                \o SpecSectionLines(parsed_content.sections)
                \o (IF all_citations = <<>> THEN <<>>
                    ELSE << <<>> >> \o SpecDefinitionLines(all_citations)))

\* C9 as stated: apart from newlines before the first and after the last
\* line, the rendered markdown is the introduction line, the sections with
\* exactly one blank line before each, one blank line, and the footnote
\* definitions on consecutive lines in ascending number order.
C9_SpecLayout ==
    pc = "display" =>
        DropTrailingNewlines(DropLeadingNewlines(markdown))
            = DropTrailingNewlines(DropLeadingNewlines(SpecLayout))

\* C9 as amended: the lines of the rendered markdown, each ended by a
\* newline, are: a blank line, the introduction line, a blank line; for each
\* section in list order a blank line, the section line, a blank line; two
\* blank lines; for each footnote in ascending number order a blank line and
\* the definition line '[^n]: <cited_text> *(<page_range>)*'. So two blank
\* lines stand between consecutive sections, four before the first
\* definition and one between two definitions.
C9_TemplateLayout ==
    pc = "display" =>
        /\ markdown =
             Unlines(<< <<>>, parsed_content.introduction, <<>> >>
                         \o TemplateSectionLines(parsed_content.sections)
                         \o << <<>>, <<>> >>
                         \o TemplateDefinitionLines(all_citations))
        /\ \A j \in 1..Len(all_citations) : all_citations[j].number = j

C9_Witness ==
    /\ pc = "display"
    /\ parsed_content.introduction # <<>>
    /\ Len(parsed_content.sections) = 2
    /\ Len(all_citations) >= 2

IsPrefix(s, t) == Len(s) <= Len(t) /\ s = SubSeq(t, 1, Len(s))

Shows(kind) == \E k \in DOMAIN placeholder : placeholder[k].kind = kind

\* C10: the steps of a submit with file and question run in the order
\* encode, processing message, service call, render, display; a failure ends
\* the request with exactly one error message in the response area and the
\* markdown is never displayed; the markdown is displayed only after encode,
\* call and render succeeded; without a file or a question the service is
\* never called.
C10_RequestOutcome ==
    /\ IsPrefix(steps, StepOrder)
    /\ Len(placeholder) <= 1
    /\ Shows("markdown") =>
         /\ steps = StepOrder
         /\ pdf_base64 = "encoded"
         /\ placeholder[1].body = markdown
         /\ markdown = TemplateRender(parsed_content.introduction,
                                      parsed_content.sections, all_citations)
    /\ Shows("error") =>
         /\ pc = "done"
         /\ placeholder = <<[kind |-> "error", body |-> <<"An error occurred: ">>]>>
         /\ "display" \notin Range(steps)
         /\ \lnot Shows("markdown")
    /\ (~uploaded_file \/ question = <<>> \/ ~submit) =>
         /\ steps = <<>>
         /\ placeholder = <<>>

\* the service call failed after the processing message was shown
C10_Witness ==
    /\ Shows("error")
    /\ steps = <<"encode", "info">>
    /\ uploaded_file
    /\ question # <<>>

====
